---- MODULE Spec2Model ----
(***************************************************************************)
(* Model of the resilient scraping orchestrator of Google-Scrapper:        *)
(*   src/scraper_by_link.py  LinkScraper, IncrementalSaver, ProxyManager,  *)
(*                           ProgressTracker  (arbitrary-link entry point) *)
(*   src/scraper.py          PlaceScraper, ProxyManager (keyword entry)    *)
(*   src/config.py           GEO_TOLERANCE_METERS, TIMING                  *)
(*                                                                         *)
(* The browser, the target site and the file system are the environment:  *)
(* every navigation, page inspection and file operation draws its outcome  *)
(* from the outcomes the real collaborator can produce.                    *)
(***************************************************************************)
EXTENDS Integers, Sequences, FiniteSets, TLC

(***************************************************************************)
(* Bounds of the model.                                                    *)
(***************************************************************************)
MaxItems == 3        \* items a result page can list
MaxResultsArg == 3   \* largest --max argument explored
MaxRetriesArg == 2   \* largest max_retries argument explored
MaxProxies == 2      \* most proxy identities in a pool
MaxFaults == 2       \* things the environment lets go wrong in one behaviour
MaxRuns == 2         \* process runs sharing the same durable files
MaxNames == 2        \* distinct place names submitted to the deduplicator
MaxContent == 2      \* fragments of text in the content of an inspected page
MaxPool == 3         \* longest pool given to the proxy rotation on its own
MaxCalls == 5        \* calls of get_next_proxy on one ProxyManager

(***************************************************************************)
(* Program constants.                                                      *)
(***************************************************************************)
GEO_TOLERANCE_METERS == 25
max_place_retry == 2

(***************************************************************************)
(* Optional values: None is the empty sequence, a present value v is <<v>>.*)
(***************************************************************************)
None == <<>>
Some(v) == <<v>>
Val(o) == o[1]

\* Python truthiness of an Optional[float]: None and 0.0 are falsy.
TruthyNum(o) == o # None /\ Val(o) # 0

\* Python truthiness of an Optional[str]: None and "" are falsy; the model
\* writes an absent or empty name as "".
TruthyStr(s) == s # ""

(***************************************************************************)
(* The site.  The result page lists the items 1..found; item k is reached  *)
(* through the href Link(k).  What the place page of item k shows (name,   *)
(* coordinates, resolved address) is given by the world.  Coordinates are  *)
(* in grid steps of 5 metres around a common origin.                       *)
(***************************************************************************)
Worlds == {"plain", "rewritten", "twins"}

Items == 1..MaxItems

Letters == <<"A", "B", "C", "D", "E", "F">>

Link(k) == <<"href", k>>

\* page.url once the place page of item k is loaded.  The site inserts the
\* "@lat,lon" part into the address in the world "rewritten".
PageUrl(w, k) == IF w = "rewritten" THEN <<"url", k>> ELSE Link(k)

ItemOfLink(l) == l[2]

PageName(w, k) == IF w = "twins" /\ k = 2 THEN Letters[1] ELSE Letters[k]

\* extract_coordinates: from "@lat,lon" in page.url, else (None, None).
PageLat(w, k) == IF w = "rewritten" THEN Some(10 * k) ELSE None
PageLon(w, k) == IF w = "rewritten" THEN Some(10 * k) ELSE None

(***************************************************************************)
(* Error texts (str(e)) that reach the handlers.                           *)
(***************************************************************************)
MsgCaptcha == "CAPTCHA detected, rotating proxy"
MsgParse == "Failed to parse place data"
MsgTimeout == "Timeout 30000ms exceeded"
MsgNetBlocked == "net::ERR_BLOCKED_BY_RESPONSE"
MsgNavigation == "Navigation failed or blocked"
MsgSearch == "Search failed or blocked"
MsgNoResults == "No results found"
MsgSetup == "browser setup failed"

\* "CAPTCHA" in error_msg
HasCAPTCHA(msg) == msg \in {MsgCaptcha}
\* "blocked" in error_msg.lower()
HasBlocked(msg) == msg \in {MsgNetBlocked, MsgNavigation, MsgSearch}

(***************************************************************************)
(* State.                                                                  *)
(***************************************************************************)
VARIABLES
  \* arguments and surroundings of a run, fixed while it lasts
  scraper,          \* "link": LinkScraper, "keyword": PlaceScraper
  max_results,      \* self.max_results
  max_retries,      \* argument of scrape_with_retry
  proxies,          \* ProxyManager.proxies
  world,            \* what the site serves
  target,           \* kind of page the entry point lands on
  found,            \* number of items the result page lists
  \* ProxyManager
  current_index,
  \* scrape_with_retry: position and locals
  pc, retry_count, already_scraped, result_links, i, place_retry,
  place_data, error_msg, link_type, returning,
  browser, context, playwright,
  \* LinkScraper / PlaceScraper fields
  scraped_places, seen_places,
  \* IncrementalSaver: memory and the four files
  scraped_urls, csv_file, jsonl_file, resume_file, failed_file,
  \* ProgressTracker
  progress,
  \* the environment's resources and bookkeeping of what happened
  live,             \* driver / browser / context objects not yet released
  proxy_log,        \* values returned by get_next_proxy in this run
  nav_blocked,      \* session attempts of this run found BLOCKED at the initial navigation
  fetch_log,        \* items navigated to by page.goto(link), in order
  outcome,          \* per item: the set of attempt outcomes seen in this run
  faults,           \* environment faults injected so far
  run,              \* number of the current process run
  saved_before,     \* identifiers whose save_place returned in an earlier run
  probe             \* the last call of a function exercised on its own: inputs and result

cfgVars == <<scraper, max_results, max_retries, proxies, world, target, found>>
ctlVars == <<pc, retry_count, already_scraped, result_links, i, place_retry,
             place_data, error_msg, link_type, returning>>
sessVars == <<browser, context, playwright, live>>
dedupVars == <<scraped_places, seen_places>>
memVars == <<scraped_urls>>
fileVars == <<csv_file, jsonl_file, resume_file, failed_file>>
ghostVars == <<proxy_log, nav_blocked, fetch_log, outcome, faults, run, saved_before>>

vars == <<cfgVars, current_index, ctlVars, sessVars, dedupVars, memVars,
          fileVars, progress, ghostVars, probe>>

(***************************************************************************)
(* Pure parts of the program.                                              *)
(***************************************************************************)
\* geopy geodesic(...).meters between two grid points, squared (m^2); one
\* grid step is 5 m, so the square of the distance is 25 * (dy^2 + dx^2).
geodesic_sq(lat1, lon1, lat2, lon2) ==
  25 * ((lat1 - lat2) * (lat1 - lat2) + (lon1 - lon2) * (lon1 - lon2))

\* The scan of scraped_places in is_duplicate.
scan_hit(name, lat, lon, places) ==
  \E k \in 1..Len(places) :
    \/ places[k].name = name
    \/ /\ TruthyNum(places[k].latitude) /\ TruthyNum(places[k].longitude)
       /\ geodesic_sq(Val(lat), Val(lon),
                      Val(places[k].latitude), Val(places[k].longitude))
            < GEO_TOLERANCE_METERS * GEO_TOLERANCE_METERS

\* An is_duplicate without the test of the empty name.
is_duplicate_any_name(name, lat, lon, seen, places) ==
  IF name \in seen THEN [dup |-> TRUE, seen |-> seen]
  ELSE IF TruthyNum(lat) /\ TruthyNum(lon) /\ scan_hit(name, lat, lon, places)
       THEN [dup |-> TRUE, seen |-> seen]
  ELSE [dup |-> FALSE, seen |-> seen \cup {name}]

\* An is_duplicate that answers as the code does and registers nothing.
is_duplicate_no_register(name, lat, lon, seen, places) ==
  IF ~TruthyStr(name) THEN [dup |-> TRUE, seen |-> seen]
  ELSE IF name \in seen THEN [dup |-> TRUE, seen |-> seen]
  ELSE IF TruthyNum(lat) /\ TruthyNum(lon) /\ scan_hit(name, lat, lon, places)
       THEN [dup |-> TRUE, seen |-> seen]
  ELSE [dup |-> FALSE, seen |-> seen]

\* An is_duplicate that starts the set of seen names afresh with every name
\* it lets through.
is_duplicate_forgets(name, lat, lon, seen, places) ==
  IF ~TruthyStr(name) THEN [dup |-> TRUE, seen |-> seen]
  ELSE IF name \in seen THEN [dup |-> TRUE, seen |-> seen]
  ELSE IF TruthyNum(lat) /\ TruthyNum(lon) /\ scan_hit(name, lat, lon, places)
       THEN [dup |-> TRUE, seen |-> seen]
  ELSE [dup |-> FALSE, seen |-> {name}]

\* An is_duplicate that registers the name of a candidate it lets through
\* only when the candidate has coordinates.
is_duplicate_registers_located(name, lat, lon, seen, places) ==
  IF ~TruthyStr(name) THEN [dup |-> TRUE, seen |-> seen]
  ELSE IF name \in seen THEN [dup |-> TRUE, seen |-> seen]
  ELSE IF TruthyNum(lat) /\ TruthyNum(lon) /\ scan_hit(name, lat, lon, places)
       THEN [dup |-> TRUE, seen |-> seen]
  ELSE [dup |-> FALSE,
        seen |-> IF TruthyNum(lat) /\ TruthyNum(lon) THEN seen \cup {name} ELSE seen]

\* An is_duplicate that registers the name of a candidate the scan rejects.
is_duplicate_registers_rejected(name, lat, lon, seen, places) ==
  IF ~TruthyStr(name) THEN [dup |-> TRUE, seen |-> seen]
  ELSE IF name \in seen THEN [dup |-> TRUE, seen |-> seen]
  ELSE IF TruthyNum(lat) /\ TruthyNum(lon) /\ scan_hit(name, lat, lon, places)
       THEN [dup |-> TRUE, seen |-> seen \cup {name}]
  ELSE [dup |-> FALSE, seen |-> seen \cup {name}]

\* is_duplicate(name, lat, lon): the returned flag and the new seen_places.
is_duplicate(name, lat, lon, seen, places) ==
  IF ~TruthyStr(name) THEN [dup |-> TRUE, seen |-> seen]
  ELSE IF name \in seen THEN [dup |-> TRUE, seen |-> seen]
  ELSE IF TruthyNum(lat) /\ TruthyNum(lon) /\ scan_hit(name, lat, lon, places)
       THEN [dup |-> TRUE, seen |-> seen]
  ELSE [dup |-> FALSE, seen |-> seen \cup {name}]

\* A get_next_proxy whose cursor stops at the last entry instead of wrapping.
get_next_proxy_no_wrap(pool, index) ==
  IF pool = <<>> THEN [proxy |-> None, index |-> index]
  ELSE [proxy |-> Some(pool[index + 1]),
        index |-> IF index + 1 < Len(pool) THEN index + 1 ELSE index]

\* A get_next_proxy that hands out the entry under the cursor and leaves the
\* cursor where it is.
get_next_proxy_no_advance(pool, index) ==
  IF pool = <<>> THEN [proxy |-> None, index |-> index]
  ELSE [proxy |-> Some(pool[index + 1]), index |-> index]

\* ProxyManager.get_next_proxy: the returned proxy and the new cursor.
get_next_proxy(pool, index) ==
  IF pool = <<>> THEN [proxy |-> None, index |-> index]
  ELSE [proxy |-> Some(pool[index + 1]), index |-> (index + 1) % Len(pool)]

\* IncrementalSaver.load_resume_state; readable = json.load succeeds.
load_resume_state(file, readable) ==
  IF file # None /\ readable THEN Val(file) ELSE {}

\* A save_resume_state that leaves the file as it was.
save_resume_state_stale(file, urls, ok) == file

\* IncrementalSaver.save_resume_state; ok = the write succeeds.
save_resume_state(file, urls, ok) ==
  IF ok THEN Some(urls) ELSE file

\* One appending write of save_place / save_failed_url.
append_line(file, line, ok) ==
  IF ok THEN Append(file, line) ELSE file

\* An increment_failed that leaves the count of processed items alone.
increment_failed_only(p) == [p EXCEPT !.failed = @ + 1]

\* ProgressTracker.increment_success / increment_failed.
increment_success(p) ==
  [p EXCEPT !.success = @ + 1, !.current = @ + 1]
increment_failed(p) ==
  [p EXCEPT !.failed = @ + 1, !.current = @ + 1]

\* The record parse_place_details builds for the page of item k.
place_record(w, k) ==
  [name |-> PageName(w, k), latitude |-> PageLat(w, k),
   longitude |-> PageLon(w, k), google_maps_url |-> PageUrl(w, k)]

\* collect_results: the hrefs of the result page; PlaceScraper looks at the
\* first max_results * 2 result elements only.
collect_results(kind, n, cap) ==
  LET m == IF kind = "keyword" /\ cap * 2 < n THEN cap * 2 ELSE n
  IN  [k \in 1..m |-> Link(k)]

\* A resume filter that hands the remaining links over in reverse order.
filter_links_reversed(links, skip) ==
  LET kept == SelectSeq(links, LAMBDA l : l \notin skip)
  IN  [n \in 1..Len(kept) |-> kept[Len(kept) + 1 - n]]

\* [link for link in result_links if link not in already_scraped]
RECURSIVE filter_links(_, _)
filter_links(links, skip) ==
  IF links = <<>> THEN <<>>
  ELSE IF Head(links) \in skip THEN filter_links(Tail(links), skip)
  ELSE <<Head(links)>> \o filter_links(Tail(links), skip)

(***************************************************************************)
(* Environment choices.                                                    *)
(***************************************************************************)
\* Outcomes of an operation that may suffer a fault while the budget lasts.
MayFail == IF faults < MaxFaults THEN {TRUE, FALSE} ELSE {TRUE}
Charge(ok) == IF ok THEN faults ELSE faults + 1

NoOutcome == [k \in Items |-> {}]
Seen(k, what) == [outcome EXCEPT ![k] = @ \cup {what}]

FreshLive == [playwright |-> 0, browser |-> 0, context |-> 0]
FreshProgress(total) == [total |-> total, success |-> 0, failed |-> 0, current |-> 0]

(***************************************************************************)
(* Initial state: the objects main() constructs, before scrape_with_retry. *)
(***************************************************************************)
\* The pools load_proxies can build: one entry per valid line of the file,
\* in file order; a line that is in the file twice is in the pool twice.
RepeatedLinePool == [k \in 1..(MaxProxies + 1) |-> IF k = 1 THEN 1 ELSE k - 1]

Pools == {[k \in 1..n |-> k] : n \in 0..MaxProxies} \cup {RepeatedLinePool}

InitRun ==
  /\ current_index = 0
  /\ pc = "start" /\ retry_count = 0 /\ already_scraped = {}
  /\ result_links = <<>> /\ i = 0 /\ place_retry = 0 /\ place_data = None
  /\ error_msg = "" /\ link_type = "" /\ returning = FALSE
  /\ browser = FALSE /\ context = FALSE /\ playwright = FALSE
  /\ scraped_places = <<>> /\ seen_places = {}
  /\ scraped_urls = {}
  /\ progress = FreshProgress(max_results)
  /\ live = FreshLive
  /\ proxy_log = <<>> /\ nav_blocked = 0 /\ fetch_log = <<>>
  /\ outcome = NoOutcome

\* The runs explored.  A search is explored with every result list, cap and
\* world; the proxy pool, which only the session attempts touch, is varied
\* on the targets without a result list.
Configs ==
  [scraper : {"link", "keyword"}, target : {"search"}, world : Worlds,
   found : 0..MaxItems, max_results : 0..MaxResultsArg,
   max_retries : {MaxRetriesArg}, proxies : {[k \in 1..MaxProxies |-> k]}]
  \cup
  [scraper : {"link"}, target : {"place", "unknown"}, world : Worlds,
   found : {0}, max_results : {0, 1},
   max_retries : 1..MaxRetriesArg, proxies : Pools]
  \cup
  [scraper : {"keyword"}, target : {"search"}, world : {"plain"},
   found : {0}, max_results : {1},
   max_retries : 1..MaxRetriesArg, proxies : Pools]

Init ==
  /\ \E c \in Configs :
       /\ scraper = c.scraper /\ target = c.target /\ world = c.world
       /\ found = c.found /\ max_results = c.max_results
       /\ max_retries = c.max_retries /\ proxies = c.proxies
  /\ InitRun
  /\ csv_file = <<>> /\ jsonl_file = <<>> /\ resume_file = None /\ failed_file = <<>>
  /\ faults = 0 /\ run = 1 /\ saved_before = {}
  /\ probe = None

(***************************************************************************)
(* parse_place_details on the page of item k.  page is what the page shows *)
(* when it is inspected: "captcha" (check_for_captcha reports a block; the *)
(* exception raised for it is caught inside and None is returned),         *)
(* "noname" (no place name) or "page" (the listing).  PlaceScraper reads   *)
(* TIMING['networkidle_timeout'], which config.py does not define: the     *)
(* KeyError is caught inside and None is returned for every page.          *)
(***************************************************************************)
\* The part of parse_place_details after the captcha check, on a page that
\* yields the fields of rec: the name test, is_duplicate, the record.
extract_page(rec, seen, places) ==
  IF ~TruthyStr(rec.name) THEN [data |-> None, seen |-> seen, tag |-> "extract_failed"]
  ELSE LET d == is_duplicate(rec.name, rec.latitude, rec.longitude, seen, places)
       IN  IF d.dup THEN [data |-> None, seen |-> d.seen, tag |-> "dup"]
           ELSE [data |-> Some(rec), seen |-> d.seen, tag |-> "ok"]

parse_place_details(kind, w, k, page, seen, places) ==
  IF kind = "keyword" THEN [data |-> None, seen |-> seen, tag |-> "extract_failed"]
  ELSE IF page = "captcha" THEN [data |-> None, seen |-> seen, tag |-> "blocked_in_parse"]
  ELSE extract_page(IF page = "noname" THEN [place_record(w, k) EXCEPT !.name = ""]
                                       ELSE place_record(w, k),
                    seen, places)

Pages == {"page"} \cup (IF faults < MaxFaults THEN {"captcha", "noname"} ELSE {})

(***************************************************************************)
(* scrape_with_retry, step by step.                                        *)
(***************************************************************************)
\* An exception that goes past the except clause, straight to the finally.
Raise_skips_handler(msg) == /\ pc' = "finally" /\ error_msg' = msg

\* Leaving the try block: the except clause of the outer loop.
Raise(msg) == /\ pc' = "handler" /\ error_msg' = msg

\* "return self.scraped_places" inside the try block: the finally clause
\* runs, then the function returns.
Return == /\ pc' = "finally" /\ returning' = TRUE

\* already_scraped = self.saver.load_resume_state()   (LinkScraper only)
Begin ==
  /\ pc = "start"
  /\ \E readable \in (IF scraper = "link" /\ resume_file # None THEN MayFail ELSE {TRUE}) :
       /\ already_scraped' = IF scraper = "link"
                               THEN load_resume_state(resume_file, readable)
                               ELSE {}
       /\ faults' = Charge(readable)
  /\ pc' = "loop"
  /\ UNCHANGED <<probe, cfgVars, current_index, retry_count, result_links, i, place_retry,
                 place_data, error_msg, link_type, returning, sessVars, dedupVars,
                 memVars, fileVars, progress, proxy_log, nav_blocked, fetch_log,
                 outcome, run, saved_before>>

\* Top of the while loop: get_next_proxy, setup_browser, context.new_page.
\* setup_browser hands its three objects over only when it returns; when it
\* raises after having created some, the locals stay None.
\* A loop test that is off by one: while retry_count <= max_retries.
LoopCondInclusive == retry_count <= max_retries

\* while retry_count < max_retries
LoopCond == retry_count < max_retries

SetupOutcomes ==
  {"ok"} \cup (IF faults < MaxFaults THEN {"launch_fail", "script_fail", "page_fail"} ELSE {})

AcquireSession ==
  /\ pc = "loop"
  /\ LoopCond
  /\ LET r == get_next_proxy(proxies, current_index) IN
       /\ current_index' = r.index
       /\ proxy_log' = Append(proxy_log, r.proxy)
  /\ \E s \in SetupOutcomes :
       /\ faults' = Charge(s = "ok")
       /\ live' = [playwright |-> live.playwright + 1,
                   browser |-> live.browser + (IF s = "launch_fail" THEN 0 ELSE 1),
                   context |-> live.context + (IF s = "launch_fail" THEN 0 ELSE 1)]
       /\ browser' = (s \in {"ok", "page_fail"})
       /\ context' = (s \in {"ok", "page_fail"})
       /\ playwright' = (s \in {"ok", "page_fail"})
       /\ IF s = "ok"
            THEN pc' = "navigate" /\ UNCHANGED error_msg
            ELSE Raise(MsgSetup)
  /\ UNCHANGED <<probe, cfgVars, retry_count, already_scraped, result_links, i, place_retry,
                 place_data, link_type, returning, dedupVars, memVars, fileVars,
                 progress, nav_blocked, fetch_log, outcome, run, saved_before>>

\* navigate_to_link / search_google_maps, then detect_link_type(page.url).
\* "blocked": check_for_captcha is true after the navigation; "failed": the
\* page did not load or the awaited selector never appeared.
NavOutcomes ==
  {"ok"} \cup (IF faults < MaxFaults THEN {"blocked", "failed"} ELSE {})

Navigate ==
  /\ pc = "navigate"
  /\ \E n \in NavOutcomes :
       /\ faults' = Charge(n = "ok")
       /\ nav_blocked' = IF n = "blocked" THEN nav_blocked + 1 ELSE nav_blocked
       /\ IF n # "ok"
            THEN /\ Raise(IF scraper = "link" THEN MsgNavigation ELSE MsgSearch)
                 /\ UNCHANGED <<link_type, returning>>
            ELSE /\ link_type' = target
                 /\ IF target = "unknown"
                      THEN Return /\ UNCHANGED error_msg
                      ELSE /\ pc' = (IF target = "place" THEN "place" ELSE "collect")
                           /\ UNCHANGED <<error_msg, returning>>
  /\ UNCHANGED <<probe, cfgVars, current_index, retry_count, already_scraped, result_links,
                 i, place_retry, place_data, sessVars, dedupVars, memVars, fileVars,
                 progress, proxy_log, fetch_log, outcome, run, saved_before>>

\* link_type == 'place': the page of the target (item 1) is already loaded.
PlaceMode ==
  /\ pc = "place"
  /\ IF PageUrl(world, 1) \in already_scraped
       THEN /\ Return
            /\ UNCHANGED <<place_data, seen_places, outcome, faults>>
       ELSE \E page \in Pages :
              LET r == parse_place_details(scraper, world, 1, page, seen_places, scraped_places) IN
                /\ place_data' = r.data
                /\ seen_places' = r.seen
                /\ outcome' = Seen(1, r.tag)
                /\ faults' = Charge(page = "page")
                /\ IF r.data # None
                     THEN pc' = "save_csv" /\ UNCHANGED returning
                     ELSE Return
  /\ UNCHANGED <<probe, cfgVars, current_index, retry_count, already_scraped, result_links,
                 i, place_retry, error_msg, link_type, sessVars, scraped_places,
                 memVars, fileVars, progress, proxy_log, nav_blocked, fetch_log,
                 run, saved_before>>

\* collect_results, "No results found", the resume filter (LinkScraper).
\* A test of the collected links that lets the empty list through.
no_results_ignored(links) == FALSE

\* if not result_links: raise Exception("No results found")
no_results(links) == links = <<>>

CollectResults ==
  /\ pc = "collect"
  /\ \E ok \in (IF found > 0 THEN MayFail ELSE {TRUE}) :
       LET links == IF ok THEN collect_results(scraper, found, max_results) ELSE <<>> IN
         /\ faults' = Charge(ok)
         /\ IF no_results(links)
              THEN /\ Raise(MsgNoResults)
                   /\ UNCHANGED <<result_links, i>>
              ELSE /\ result_links' = IF scraper = "link"
                                        THEN filter_links(links, already_scraped)
                                        ELSE links
                   /\ i' = 1
                   /\ pc' = "for"
                   /\ UNCHANGED error_msg
  /\ UNCHANGED <<probe, cfgVars, current_index, retry_count, already_scraped, place_retry,
                 place_data, link_type, returning, sessVars, dedupVars, memVars,
                 fileVars, progress, proxy_log, nav_blocked, fetch_log, outcome, run,
                 saved_before>>

\* A result cap that is off by one: len(self.scraped_places) > self.max_results.
CapReachedStrict == Len(scraped_places) > max_results

\* for i, link in enumerate(result_links): the result cap, then the item.
CapReached == Len(scraped_places) >= max_results

ForNext ==
  /\ pc = "for"
  /\ IF i > Len(result_links) \/ CapReached
       THEN /\ Return
            /\ UNCHANGED <<place_retry, place_data>>
       ELSE /\ place_retry' = 0
            /\ place_data' = None
            /\ pc' = "while"
            /\ UNCHANGED returning
  /\ UNCHANGED <<probe, cfgVars, current_index, retry_count, already_scraped, result_links,
                 i, error_msg, link_type, sessVars, dedupVars, memVars, fileVars,
                 progress, ghostVars>>

\* A loop test that forgets "and not place_data".
WhileCondIgnoresData == scraper = "keyword" \/ place_retry < max_place_retry

\* while place_retry < max_place_retry and not place_data   (LinkScraper);
\* PlaceScraper tries every item once.
WhileCond == scraper = "keyword" \/ (place_retry < max_place_retry /\ place_data = None)

CurItem == ItemOfLink(result_links[i])

\* page.goto(link) and the check_for_captcha that follows it.
FetchOutcomes ==
  {"ok"} \cup (IF faults < MaxFaults THEN {"captcha", "timeout", "net_blocked"} ELSE {})

FetchMsg(f) == IF f = "captcha" THEN MsgCaptcha
               ELSE IF f = "timeout" THEN MsgTimeout ELSE MsgNetBlocked

Fetch ==
  /\ pc = "while"
  /\ WhileCond
  /\ fetch_log' = Append(fetch_log, CurItem)
  /\ \E f \in FetchOutcomes :
       /\ faults' = Charge(f = "ok")
       /\ IF f = "ok"
            THEN /\ pc' = "parse"
                 /\ UNCHANGED <<error_msg, outcome>>
            ELSE /\ pc' = "item_except"
                 /\ error_msg' = FetchMsg(f)
                 /\ outcome' = Seen(CurItem, IF f = "captcha" THEN "blocked" ELSE "nav_failed")
  /\ UNCHANGED <<probe, cfgVars, current_index, retry_count, already_scraped, result_links,
                 i, place_retry, place_data, link_type, returning, sessVars,
                 dedupVars, memVars, fileVars, progress, proxy_log, nav_blocked, run,
                 saved_before>>

\* The while loop ends without a break: next item of the for loop.
EndWhile ==
  /\ pc = "while"
  /\ ~WhileCond
  /\ i' = i + 1
  /\ pc' = "for"
  /\ UNCHANGED <<probe, cfgVars, current_index, retry_count, already_scraped, result_links,
                 place_retry, place_data, error_msg, link_type, returning, sessVars,
                 dedupVars, memVars, fileVars, progress, ghostVars>>

\* place_data = await self.parse_place_details(page, context); PlaceScraper
\* appends a returned record right away ("if place_data: append").
ParseItem ==
  /\ pc = "parse"
  /\ \E page \in (IF scraper = "link" THEN Pages ELSE {"page"}) :
       LET r == parse_place_details(scraper, world, CurItem, page, seen_places, scraped_places) IN
         /\ place_data' = r.data
         /\ seen_places' = r.seen
         /\ outcome' = Seen(CurItem, r.tag)
         /\ faults' = Charge(page = "page")
         /\ IF scraper = "keyword"
              THEN /\ scraped_places' = IF r.data # None
                                          THEN Append(scraped_places, Val(r.data))
                                          ELSE scraped_places
                   /\ pc' = "go_back" /\ UNCHANGED error_msg
              ELSE /\ UNCHANGED scraped_places
                   /\ IF r.data # None
                        THEN pc' = "save_csv" /\ UNCHANGED error_msg
                        ELSE pc' = "item_except" /\ error_msg' = MsgParse
  /\ UNCHANGED <<probe, cfgVars, current_index, retry_count, already_scraped, result_links,
                 i, place_retry, link_type, returning, sessVars,
                 memVars, fileVars, progress, proxy_log, nav_blocked, fetch_log,
                 run, saved_before>>

(***************************************************************************)
(* IncrementalSaver.save_place, one durable write per step, so that the    *)
(* process can stop between any two of them.                               *)
(***************************************************************************)
\* A write whose exception is not caught inside the saver: it reaches the
\* except clause of the item.
after_write_raises(next, ok) == IF ok THEN next ELSE "item_except"

\* try: <write> except Exception as e: logger.error(...): whether or not the
\* write succeeded, control falls through to the statement that follows.
after_write(next, ok) == next

\* save_place that forgets to add the URL to scraped_urls.
track_url_forgotten(urls, url) == urls

\* self.scraped_urls.add(place['google_maps_url'])
track_url(urls, url) == urls \cup {url}

SaveCsv ==
  /\ pc = "save_csv"
  /\ \E ok \in MayFail :
       /\ csv_file' = append_line(csv_file, Val(place_data), ok)
       /\ faults' = Charge(ok)
       /\ pc' = after_write("save_jsonl", ok)
  /\ UNCHANGED <<probe, cfgVars, current_index, retry_count, already_scraped, result_links,
                 i, place_retry, place_data, error_msg, link_type, returning,
                 sessVars, dedupVars, memVars, jsonl_file, resume_file, failed_file,
                 progress, proxy_log, nav_blocked, fetch_log, outcome, run, saved_before>>

SaveJsonl ==
  /\ pc = "save_jsonl"
  /\ \E ok \in MayFail :
       /\ jsonl_file' = append_line(jsonl_file, Val(place_data), ok)
       /\ faults' = Charge(ok)
       /\ pc' = after_write("save_track", ok)
  /\ UNCHANGED <<probe, cfgVars, current_index, retry_count, already_scraped, result_links,
                 i, place_retry, place_data, error_msg, link_type, returning,
                 sessVars, dedupVars, memVars, csv_file, resume_file, failed_file,
                 progress, proxy_log, nav_blocked, fetch_log, outcome, run, saved_before>>

\* Track scraped URL: scraped_urls.add(...), save_resume_state(); save_place
\* has returned when this step is done.
SaveTrack ==
  /\ pc = "save_track"
  /\ scraped_urls' = track_url(scraped_urls, Val(place_data).google_maps_url)
  /\ \E ok \in MayFail :
       /\ resume_file' = save_resume_state(resume_file, scraped_urls', ok)
       /\ faults' = Charge(ok)
       /\ pc' = after_write("accept", ok)
  /\ UNCHANGED <<probe, cfgVars, current_index, retry_count, already_scraped, result_links,
                 i, place_retry, place_data, error_msg, link_type, returning,
                 sessVars, dedupVars, csv_file, jsonl_file, failed_file,
                 progress, proxy_log, nav_blocked, fetch_log, outcome, run, saved_before>>

\* self.scraped_places.append(place_data); self.progress.increment_success()
Accept ==
  /\ pc = "accept"
  /\ scraped_places' = Append(scraped_places, Val(place_data))
  /\ progress' = increment_success(progress)
  /\ IF link_type = "place"
       THEN Return
       ELSE pc' = "go_back" /\ UNCHANGED returning
  /\ UNCHANGED <<probe, cfgVars, current_index, retry_count, already_scraped, result_links,
                 i, place_retry, place_data, error_msg, link_type, sessVars,
                 seen_places, memVars, fileVars, ghostVars>>

\* await page.go_back(...)
BackOutcomes ==
  {"ok"} \cup (IF faults < MaxFaults THEN {"timeout", "net_blocked"} ELSE {})

GoBack ==
  /\ pc = "go_back"
  /\ \E g \in BackOutcomes :
       /\ faults' = Charge(g = "ok")
       /\ IF g = "ok"
            THEN /\ IF scraper = "link"
                      THEN pc' = "while" /\ UNCHANGED i
                      ELSE pc' = "for" /\ i' = i + 1
                 /\ UNCHANGED <<error_msg, outcome>>
            ELSE /\ pc' = "item_except"
                 /\ error_msg' = FetchMsg(g)
                 /\ outcome' = Seen(CurItem, "nav_failed")
                 /\ UNCHANGED i
  /\ UNCHANGED <<probe, cfgVars, current_index, retry_count, already_scraped, result_links,
                 place_retry, place_data, link_type, returning, sessVars,
                 dedupVars, memVars, fileVars, progress, proxy_log, nav_blocked,
                 fetch_log, run, saved_before>>

(***************************************************************************)
(* The except clause of the item.                                          *)
(***************************************************************************)
\* A save_failed_url that also marks the identifier as processed.
save_failed_url_marks(failed, urls, url, error, ok) ==
  [failed |-> append_line(failed, <<url, error>>, ok), urls |-> urls \cup {url}]

\* IncrementalSaver.save_failed_url: the failure log and the identifier set.
save_failed_url(failed, urls, url, error, ok) ==
  [failed |-> append_line(failed, <<url, error>>, ok), urls |-> urls]

\* if place_retry >= max_place_retry   (after place_retry += 1)
RetriesExhausted(n) == n >= max_place_retry

\* The test that re-raises to the outer loop.
Escalates(kind, msg) ==
  IF kind = "link" THEN HasCAPTCHA(msg) \/ HasBlocked(msg) ELSE HasCAPTCHA(msg)

ItemExcept ==
  /\ pc = "item_except"
  /\ IF scraper = "link"
       THEN /\ place_retry' = place_retry + 1
            /\ IF RetriesExhausted(place_retry')
                 THEN \E ok \in MayFail :
                        LET r == save_failed_url(failed_file, scraped_urls,
                                                 result_links[i], error_msg, ok) IN
                          /\ failed_file' = r.failed
                          /\ scraped_urls' = r.urls
                          /\ faults' = Charge(ok)
                          /\ progress' = increment_failed(progress)
                          /\ i' = i + 1
                          /\ pc' = after_write("for", ok)
                 ELSE /\ pc' = IF Escalates(scraper, error_msg) THEN "handler" ELSE "while"
                      /\ UNCHANGED <<failed_file, scraped_urls, faults, progress, i>>
       ELSE /\ IF Escalates(scraper, error_msg)
                 THEN pc' = "handler" /\ UNCHANGED i
                 ELSE pc' = "for" /\ i' = i + 1
            /\ UNCHANGED <<place_retry, failed_file, scraped_urls, faults, progress>>
  /\ UNCHANGED <<probe, cfgVars, current_index, retry_count, already_scraped, result_links,
                 place_data, error_msg, link_type, returning, sessVars, dedupVars,
                 csv_file, jsonl_file, resume_file, proxy_log, nav_blocked, fetch_log,
                 outcome, run, saved_before>>

(***************************************************************************)
(* The except and finally clauses of the outer loop.                       *)
(***************************************************************************)
\* An except clause that lets the exception of the last attempt through to
\* the caller.
after_except_reraises(count, limit) == IF count >= limit THEN "raised" ELSE "finally"

\* except Exception as e: the exception is consumed whatever the count is;
\* the finally clause runs and the loop tests its condition again.
after_except(count, limit) == "finally"

OuterExcept ==
  /\ pc = "handler"
  /\ retry_count' = retry_count + 1
  /\ pc' = after_except(retry_count', max_retries)
  /\ returning' = FALSE
  /\ UNCHANGED <<probe, cfgVars, current_index, already_scraped, result_links, i,
                 place_retry, place_data, error_msg, link_type, sessVars, dedupVars,
                 memVars, fileVars, progress, ghostVars>>

\* finally: context.close(), browser.close(), playwright.stop(), each only
\* for a local that is set, all three inside one try: the first call that
\* raises skips the rest.  t names the call that raises ("ok": none does).
teardown(lv, ctx, brw, pw, t) ==
  [context |-> IF ctx /\ t # "context" THEN lv.context - 1 ELSE lv.context,
   browser |-> IF brw /\ t \notin {"context", "browser"} THEN lv.browser - 1 ELSE lv.browser,
   playwright |-> IF pw /\ t = "ok" THEN lv.playwright - 1 ELSE lv.playwright]

TeardownOutcomes ==
  {"ok"} \cup (IF faults < MaxFaults /\ context THEN {"context", "browser", "stop"} ELSE {})

Teardown ==
  /\ pc = "finally"
  /\ \E t \in TeardownOutcomes :
       /\ live' = teardown(live, context, browser, playwright, t)
       /\ faults' = Charge(t = "ok")
  /\ IF returning
       THEN /\ pc' = "done"
            /\ UNCHANGED <<result_links, i, place_retry, place_data, error_msg, link_type>>
       ELSE /\ pc' = "loop"
            /\ result_links' = <<>> /\ i' = 0 /\ place_retry' = 0
            /\ place_data' = None /\ error_msg' = "" /\ link_type' = ""
  /\ UNCHANGED <<probe, cfgVars, current_index, retry_count, already_scraped, returning,
                 browser, context, playwright, dedupVars, memVars, fileVars,
                 progress, proxy_log, nav_blocked, fetch_log, outcome, run, saved_before>>

\* The loop ends: "return self.scraped_places" after it.
Exhausted ==
  /\ pc = "loop"
  /\ ~LoopCond
  /\ pc' = "done"
  /\ UNCHANGED <<probe, cfgVars, current_index, retry_count, already_scraped, result_links,
                 i, place_retry, place_data, error_msg, link_type, returning,
                 sessVars, dedupVars, memVars, fileVars, progress, ghostVars>>

Next ==
  \/ Begin \/ AcquireSession \/ Navigate \/ PlaceMode \/ CollectResults
  \/ ForNext \/ Fetch \/ EndWhile \/ ParseItem
  \/ SaveCsv \/ SaveJsonl \/ SaveTrack \/ Accept \/ GoBack
  \/ ItemExcept \/ OuterExcept \/ Teardown \/ Exhausted

Spec == Init /\ [][Next]_vars

(***************************************************************************)
(* Several runs over the same files.  The process stops, at any point of a *)
(* run or after it, and the command is started again: main() builds new    *)
(* objects, and the IncrementalSaver of the new run uses the same four     *)
(* files (same link type and same time stamp in the file names).  Only     *)
(* LinkScraper keeps files.                                                *)
(***************************************************************************)
Restart ==
  /\ scraper = "link"
  /\ run < MaxRuns
  /\ pc # "start"
  /\ run' = run + 1
  /\ saved_before' = saved_before \cup scraped_urls
  /\ current_index' = 0
  /\ pc' = "start" /\ retry_count' = 0 /\ already_scraped' = {}
  /\ result_links' = <<>> /\ i' = 0 /\ place_retry' = 0 /\ place_data' = None
  /\ error_msg' = "" /\ link_type' = "" /\ returning' = FALSE
  /\ browser' = FALSE /\ context' = FALSE /\ playwright' = FALSE
  /\ scraped_places' = <<>> /\ seen_places' = {}
  /\ scraped_urls' = {}
  /\ progress' = FreshProgress(max_results)
  /\ live' = FreshLive
  /\ proxy_log' = <<>> /\ nav_blocked' = 0 /\ fetch_log' = <<>>
  /\ outcome' = NoOutcome
  /\ UNCHANGED <<probe, cfgVars, fileVars, faults>>

NextRuns == Next \/ Restart

SpecRuns == Init /\ [][NextRuns]_vars

(***************************************************************************)
(* The run under the scheduling the code has: one thread that always takes *)
(* its next step (every wait on the browser carries a timeout).            *)
(***************************************************************************)
SpecLive == Init /\ [][Next]_vars /\ WF_vars(Next)

(***************************************************************************)
(* The deduplicator on its own.  A LinkScraper is given one place page     *)
(* after the other, with any name and any coordinates, and does with each  *)
(* what scrape_with_retry does with a parsed page: parse_place_details     *)
(* (name test, is_duplicate), and for an accepted record save_place,       *)
(* append and increment_success.  Coordinates are grid steps of 5 m around *)
(* latitude 0, longitude 0; extract_coordinates yields both or neither.    *)
(***************************************************************************)
DedupNames == {""} \cup {Letters[n] : n \in 1..MaxNames}

DedupCoords ==
  {<<None, None>>} \cup {<<Some(a), Some(b)>> : a \in {0, 1}, b \in {0, 1, 5, 6}}

\* A LinkScraper as main() constructs it, before anything is called on it.
InitScraper ==
  /\ scraper = "link" /\ target = "place" /\ world = "plain"
  /\ found = 0 /\ max_results = MaxResultsArg
  /\ max_retries = MaxRetriesArg /\ proxies = <<>>
  /\ InitRun
  /\ csv_file = <<>> /\ jsonl_file = <<>> /\ resume_file = None /\ failed_file = <<>>
  /\ faults = 0 /\ run = 1 /\ saved_before = {}
  /\ probe = None

Submit ==
  \E name \in DedupNames, c \in DedupCoords :
    LET rec == [name |-> name, latitude |-> c[1], longitude |-> c[2],
                google_maps_url |-> Link(Len(scraped_places) + 1)]
        r == extract_page(rec, seen_places, scraped_places)
    IN  /\ probe' = Some([name |-> name, latitude |-> c[1], longitude |-> c[2],
                          rejected |-> (r.data = None)])
        /\ place_data' = r.data
        /\ seen_places' = r.seen
        /\ IF r.data # None
             THEN /\ csv_file' = append_line(csv_file, rec, TRUE)
                  /\ jsonl_file' = append_line(jsonl_file, rec, TRUE)
                  /\ scraped_urls' = track_url(scraped_urls, rec.google_maps_url)
                  /\ resume_file' = save_resume_state(resume_file, scraped_urls', TRUE)
                  /\ scraped_places' = Append(scraped_places, rec)
                  /\ progress' = increment_success(progress)
             ELSE UNCHANGED <<csv_file, jsonl_file, scraped_urls, resume_file,
                              scraped_places, progress>>
        /\ UNCHANGED <<cfgVars, current_index, pc, retry_count, already_scraped,
                       result_links, i, place_retry, error_msg, link_type, returning,
                       sessVars, failed_file, ghostVars>>

SpecDedup == InitScraper /\ [][Submit]_vars

(***************************************************************************)
(* check_for_captcha on its own.  The content of a page is a sequence of   *)
(* fragments of text, each written in lower case or in capitals; lower()   *)
(* turns every fragment into lower case, and a keyword is in the content   *)
(* when one of the fragments is that keyword.  fails names the query of    *)
(* the page that raises: "none", "query_selector" or "content".            *)
(***************************************************************************)
blocking_keywords ==
  <<"unusual traffic", "automated requests", "verify you", "not a robot">>

Range(f) == {f[n] : n \in DOMAIN f}

Fragments ==
  [text : Range(blocking_keywords) \cup {"google maps"}, caps : BOOLEAN]

Contents == UNION {[1..n -> Fragments] : n \in 0..MaxContent}

\* content.lower()
lower(content) == [n \in DOMAIN content |-> [content[n] EXCEPT !.caps = FALSE]]

\* keyword in text
contains(text, keyword) ==
  \E n \in DOMAIN text : text[n] = [text |-> keyword, caps |-> FALSE]

\* A check_for_captcha that compares the content as it is written.
check_for_captcha_as_written(marker, content, fails) ==
  IF fails = "query_selector" THEN FALSE
  ELSE IF marker THEN TRUE
  ELSE IF fails = "content" THEN FALSE
  ELSE \E k \in DOMAIN blocking_keywords : contains(content, blocking_keywords[k])

\* A check_for_captcha that reports a block when one of its queries raises.
check_for_captcha_fail_closed(marker, content, fails) ==
  IF fails = "query_selector" THEN TRUE
  ELSE IF marker THEN TRUE
  ELSE IF fails = "content" THEN TRUE
  ELSE \E k \in DOMAIN blocking_keywords : contains(lower(content), blocking_keywords[k])

\* check_for_captcha(page): TRUE is BLOCKED, FALSE is CLEAN.  An exception of
\* either query is caught and logged, and False is returned.
check_for_captcha(marker, content, fails) ==
  IF fails = "query_selector" THEN FALSE
  ELSE IF marker THEN TRUE
  ELSE IF fails = "content" THEN FALSE
  ELSE \E k \in DOMAIN blocking_keywords : contains(lower(content), blocking_keywords[k])

\* One call of check_for_captcha on an arbitrary page.
Inspect ==
  /\ probe = None
  /\ \E marker \in BOOLEAN, content \in Contents,
        fails \in {"none", "query_selector", "content"} :
       probe' = Some([marker |-> marker, content |-> content, fails |-> fails,
                      blocked |-> check_for_captcha(marker, content, fails)])
  /\ UNCHANGED <<cfgVars, current_index, ctlVars, sessVars, dedupVars, memVars,
                 fileVars, progress, ghostVars>>

SpecCaptcha == InitScraper /\ [][Inspect]_vars

(***************************************************************************)
(* ProxyManager on its own.  load_proxies appends one entry per valid line *)
(* of the proxy file, so a pool is any sequence of identities, repeated    *)
(* lines included; get_next_proxy is then called again and again on it.    *)
(***************************************************************************)
ProxyPools == UNION {[1..n -> 1..MaxPool] : n \in 0..MaxPool}

\* A ProxyManager after __init__, in front of a LinkScraper not yet started.
InitProxyManager ==
  /\ scraper = "link" /\ target = "place" /\ world = "plain"
  /\ found = 0 /\ max_results = MaxResultsArg
  /\ max_retries = MaxRetriesArg /\ proxies \in ProxyPools
  /\ InitRun
  /\ csv_file = <<>> /\ jsonl_file = <<>> /\ resume_file = None /\ failed_file = <<>>
  /\ faults = 0 /\ run = 1 /\ saved_before = {}
  /\ probe = None

\* One call of get_next_proxy.
NextProxy ==
  /\ Len(proxy_log) < MaxCalls
  /\ LET r == get_next_proxy(proxies, current_index) IN
       /\ current_index' = r.index
       /\ proxy_log' = Append(proxy_log, r.proxy)
  /\ UNCHANGED <<probe, cfgVars, ctlVars, sessVars, dedupVars, memVars, fileVars,
                 progress, nav_blocked, fetch_log, outcome, faults, run, saved_before>>

SpecProxy == InitProxyManager /\ [][NextProxy]_vars

(***************************************************************************)
(* Claims.                                                                 *)
(***************************************************************************)
\* Session attempts made so far in this run: one get_next_proxy each.
Attempts == Len(proxy_log)

\* Every session attempt made so far was found BLOCKED at its initial
\* navigation (the attempt that is about to navigate is still open).
BlockedEveryAttempt ==
  nav_blocked = Attempts - (IF pc = "navigate" THEN 1 ELSE 0)

C1_Final ==
  (pc = "done" /\ BlockedEveryAttempt)
    => /\ Attempts = max_retries
       /\ nav_blocked = max_retries
       /\ scraped_places = <<>>

\* C1: for both entry points, when every session attempt is classified
\* BLOCKED at the initial navigation, the run makes exactly max_retries
\* session attempts (one proxy acquisition and one session each), then
\* terminates and returns the accepted-record list, which is empty.
C1_BlockedEveryAttempt ==
  /\ []C1_Final
  /\ ([]BlockedEveryAttempt) => <>(pc = "done")

C1_Witness ==
  /\ pc = "done" /\ nav_blocked = max_retries /\ max_retries = MaxRetriesArg
  /\ Attempts = max_retries /\ scraped_places = <<>> /\ scraper = "link"

\* An item has been fetched and is neither accepted nor failed yet.
InFlight == pc \in {"parse", "save_csv", "save_jsonl", "save_track", "accept"}

\* Every item fetched so far extracted successfully as a non-duplicate.
EveryFetchAccepted ==
  Len(fetch_log) = Len(scraped_places) + (IF InFlight THEN 1 ELSE 0)

\* C2: in search mode, when every fetched item extracts successfully as a
\* non-duplicate and max_results = M is smaller than the number N of items
\* discovered, exactly the first M items are fetched and the items M+1..N
\* are never navigated to.
C2_CapStopsFetching ==
  (target = "search" /\ EveryFetchAccepted)
    => /\ \A n \in DOMAIN fetch_log : fetch_log[n] <= max_results
       /\ (pc = "done" /\ returning /\ max_results < found)
            => fetch_log = [n \in 1..max_results |-> n]

C2_Witness ==
  /\ scraper = "link" /\ target = "search" /\ pc = "done" /\ returning
  /\ found = MaxItems /\ max_results = 2 /\ fetch_log = <<1, 2>>
  /\ Len(scraped_places) = 2

\* C3: LinkScraper, three discovered items with distinct names, none in the
\* resume set, max_results >= 3, no block and nothing else going wrong:
\* when item 2 fails extraction on every attempt and items 1 and 3 succeed,
\* the run ends with exactly 2 accepted records, exactly 1 failure-log
\* entry (for item 2) and a resume set holding exactly the identifiers of
\* items 1 and 3.
C3_Script ==
  /\ scraper = "link" /\ target = "search" /\ found = 3 /\ max_results >= 3
  /\ run = 1 /\ pc = "done"
  /\ outcome[1] = {"ok"} /\ outcome[2] = {"extract_failed"} /\ outcome[3] = {"ok"}
  /\ faults = max_place_retry

C3_EndToEnd ==
  C3_Script
    => /\ Len(scraped_places) = 2
       /\ Len(failed_file) = 1 /\ failed_file[1][1] = Link(2)
       /\ resume_file = Some({PageUrl(world, 1), PageUrl(world, 3)})
       /\ scraped_urls = {PageUrl(world, 1), PageUrl(world, 3)}

C3_Witness ==
  C3_Script /\ Len(failed_file) = 1 /\ Len(csv_file) = 2 /\ Len(jsonl_file) = 2

\* The durable resume set as a fresh IncrementalSaver reads it from a
\* readable file.
FreshLoad == load_resume_state(resume_file, TRUE)

\* The identifier (source URL) of the record save_place is working on.
CurUrl == Val(place_data).google_maps_url

SavesFailedUrl ==
  /\ pc = "item_except" /\ scraper = "link"
  /\ RetriesExhausted(place_retry + 1)
  /\ run' = run

HasFailureEntry(url) == \E n \in DOMAIN failed_file : failed_file[n][1] = url

LinksToProcess == {result_links[n] : n \in DOMAIN result_links}

InItemLoop ==
  pc \in {"for", "while", "parse", "save_csv", "save_jsonl", "save_track",
          "accept", "go_back", "item_except"}

\* C5: save_failed_url leaves the in-memory identifier set and the durable
\* resume state unchanged, so an identifier that only ever failed is not
\* filtered out by a later run: it is among the links that run processes.
C5_FailureKeepsResumeSet ==
  /\ [][SavesFailedUrl => UNCHANGED <<scraped_urls, resume_file>>]_vars
  /\ [](\A k \in 1..found :
          (/\ scraper = "link" /\ InItemLoop
           /\ HasFailureEntry(Link(k))
           /\ PageUrl(world, k) \notin saved_before)
            => Link(k) \in LinksToProcess)

C5_Witness ==
  /\ run = 2 /\ pc = "parse" /\ HasFailureEntry(result_links[i])
  /\ resume_file # None /\ already_scraped # {}

\* C6: once save_place(item) has returned, a later run on the same durable
\* resume state never fetches the item again: its identifier is filtered
\* out before any navigation to it.  Stated for the behaviours in which no
\* operation of the environment fails, where it is already violated.
C6_NeverFetchedAgain ==
  faults = 0 =>
    \A n \in DOMAIN fetch_log : PageUrl(world, fetch_log[n]) \notin saved_before

Occurrences(stream, url) ==
  Cardinality({n \in DOMAIN stream : stream[n].google_maps_url = url})

\* C7: over the runs that share the durable state, with a stop possible at
\* any step of save_place, each source identifier has at most one record in
\* each accepted-record stream.  Stated for the site that serves every
\* place under the address of its link and for the behaviours in which no
\* operation of the environment fails, where it is already violated.
C7_AtMostOnce ==
  (faults = 0 /\ world = "plain") =>
    \A k \in Items :
      /\ Occurrences(csv_file, PageUrl(world, k)) <= 1
      /\ Occurrences(jsonl_file, PageUrl(world, k)) <= 1

\* The record of the identifier is in both accepted-record streams.
Written(url) == Occurrences(csv_file, url) >= 1 /\ Occurrences(jsonl_file, url) >= 1

\* C8: at every point of save_place, up to its return, at which the durable
\* resume set contains the item's identifier, the record has been appended
\* to both output streams.
C8_ResumeFlushLast ==
  (pc \in {"save_csv", "save_jsonl", "save_track", "accept"} /\ CurUrl \in FreshLoad)
    => Written(CurUrl)

\* C9: at every item boundary an identifier is in the processed (resume) set
\* only if a record, or an explicit failure, has been durably written for
\* it; in particular it is not in the set when a write of its record to an
\* output stream failed.
C9_ProcessedOnlyIfWritten ==
  pc = "for" =>
    \A url \in FreshLoad \cup scraped_urls : Written(url) \/ HasFailureEntry(url)

\* The step in which a durable write of the saver fails.
WriteFails ==
  /\ pc \in {"save_csv", "save_jsonl", "save_track", "item_except"}
  /\ faults' = faults + 1

AfterWrite ==
  [save_csv |-> "save_jsonl", save_jsonl |-> "save_track",
   save_track |-> "accept", item_except |-> "for"]

\* C10: a failing durable write (either stream, resume state, failure log)
\* is absorbed inside the saver: save_place and save_failed_url return
\* normally, the outer retry counter is unchanged, the accepted record is
\* appended in memory and the next item is processed.
C10_WriteFailureAbsorbed ==
  /\ [][WriteFails => /\ pc' = AfterWrite[pc]
                      /\ retry_count' = retry_count
                      /\ (pc = "item_except" => i' = i + 1)]_vars
  /\ []((pc = "go_back" /\ scraper = "link")
          => /\ scraped_places # <<>>
             /\ scraped_places[Len(scraped_places)] = Val(place_data))

C10_Witness ==
  /\ scraper = "link" /\ pc = "parse" /\ i = 2 /\ retry_count = 0
  /\ Len(scraped_places) = 1 /\ csv_file = <<>> /\ Len(jsonl_file) = 1

\* C11: whenever an attempt is over (the loop is about to start the next one
\* or the run has returned) every resource acquired during it (automation
\* driver, browser, context) has been released, also when session setup
\* failed part-way or a release itself failed; so at most one session is
\* open at any time.
C11_SessionReleased ==
  /\ pc \in {"loop", "done"} => live = FreshLive
  /\ live.playwright <= 1 /\ live.browser <= 1 /\ live.context <= 1

\* The post-navigation check_for_captcha has reported BLOCKED for the item
\* being processed: the except clause of the item is about to handle it.
BlockedAtItem == pc = "item_except" /\ error_msg = MsgCaptcha

\* C12: whenever check_for_captcha reports BLOCKED after the navigation to
\* an item, on any per-item attempt, control goes to the outer loop's
\* handler (which counts an outer retry and tears the session down); the
\* item is not retried in the same session and is not recorded as an item
\* failure followed by the next item.
C12_BlockEscalates ==
  [][BlockedAtItem => /\ pc' = "handler"
                      /\ failed_file' = failed_file
                      /\ i' = i]_vars

\* The except clause of the item is about to handle a failure that does not
\* come from a BLOCKED classification.
NonBlockFailureAtItem == pc = "item_except" /\ error_msg # MsgCaptcha

\* C13: a per-item failure that does not come from a BLOCKED classification
\* (navigation error, extraction failure, missing name), whatever the text
\* of its message, is absorbed at the item boundary: the session is not
\* aborted, the outer retry counter is unchanged and the loop goes on with
\* the item loop.
C13_ItemFailureAbsorbed ==
  [][NonBlockFailureAtItem => /\ pc' \in {"while", "for"}
                              /\ retry_count' = retry_count]_vars

\* Items whose processing in this run met nothing but extraction failures
\* (exception during extraction, or no name on the page).
OnlyExtractionFailed == {k \in Items : outcome[k] = {"extract_failed"}}

FailureEntries(k) ==
  Len(SelectSeq(failed_file, LAMBDA e : e[1] = Link(k)))

\* C14: when the run has returned, every item whose processing ended in a
\* non-block failure has exactly one failure-log entry for its identifier;
\* in search mode, in single-place mode and in the keyword-search entry
\* point.
C14_OneFailureEntry ==
  (pc = "done" /\ returning) =>
    \A k \in OnlyExtractionFailed : FailureEntries(k) = 1

\* The identifier under which item k is kept in the resume set.
Identifier(k) == PageUrl(world, k)

\* C15: in every mode of LinkScraper, an item whose identifier is in the
\* resume set loaded at the start of the run is skipped: it is never
\* navigated to by the item loop, never extracted and never written to the
\* ledger.
C15_ResumeSetSkipped ==
  scraper = "link" =>
    /\ \A n \in DOMAIN fetch_log : Identifier(fetch_log[n]) \notin already_scraped
    /\ pc \in {"save_csv", "save_jsonl", "save_track", "accept"}
         => Val(place_data).google_maps_url \notin already_scraped

\* The list scrape_with_retry returns holds every record accepted in the
\* run: one per increment_success, and one for every tracked identifier.
ReturnsAllAccepted ==
  /\ scraper = "link" => Len(scraped_places) = progress.success
  /\ \A url \in scraped_urls :
       \E k \in 1..Len(scraped_places) : scraped_places[k].google_maps_url = url

\* C16: scrape_with_retry never raises to its caller: every exception that
\* reaches the outer handler is consumed, the run terminates on every path,
\* also when max_retries is exhausted, and it returns the list of all
\* records accepted so far, those of aborted session attempts included.
C16_NeverRaises ==
  /\ [][pc = "handler" => pc' = "finally"]_vars
  /\ <>(pc = "done")
  /\ [](pc = "done" => ReturnsAllAccepted)

C16_Witness ==
  /\ pc = "done" /\ ~returning
  /\ retry_count = max_retries /\ max_retries = MaxRetriesArg
  /\ Len(scraped_places) >= 1

\* The candidate of the last submission, and the records accepted before it.
Candidate == Val(probe)

AcceptedBefore ==
  IF Candidate.rejected THEN scraped_places
  ELSE SubSeq(scraped_places, 1, Len(scraped_places) - 1)

HasCoordinates(r) == r.latitude # None /\ r.longitude # None

\* Square of the distance in metres between two records with coordinates.
DistanceSq(r, c) ==
  geodesic_sq(Val(r.latitude), Val(r.longitude), Val(c.latitude), Val(c.longitude))

ToleranceSq == GEO_TOLERANCE_METERS * GEO_TOLERANCE_METERS

\* C17: a candidate with coordinates that lies strictly less than the
\* tolerance radius (25 m) from an accepted record with coordinates is a
\* duplicate, for all coordinate values, latitude or longitude 0 included;
\* a candidate with a new name that lies exactly at the tolerance distance
\* from an accepted record, and nearer to none, is not a duplicate.
C17_GeodesicRule ==
  (probe # None /\ HasCoordinates(Candidate)) =>
    LET near == {k \in 1..Len(AcceptedBefore) :
                   /\ HasCoordinates(AcceptedBefore[k])
                   /\ DistanceSq(AcceptedBefore[k], Candidate) < ToleranceSq}
        at == {k \in 1..Len(AcceptedBefore) :
                 /\ HasCoordinates(AcceptedBefore[k])
                 /\ DistanceSq(AcceptedBefore[k], Candidate) = ToleranceSq}
        new == /\ Candidate.name # ""
               /\ \A k \in 1..Len(AcceptedBefore) : AcceptedBefore[k].name # Candidate.name
    IN  /\ near # {} => Candidate.rejected
        /\ (near = {} /\ at # {} /\ new) => ~Candidate.rejected

\* C18: when is_duplicate is called twice with the same non-empty name, with
\* any coordinates on either call, the second call returns True, whatever
\* the first call returned.
C18_NameRule ==
  [][(/\ probe # None /\ probe' # None
      /\ Val(probe).name # ""
      /\ Val(probe').name = Val(probe).name) => Val(probe').rejected]_vars

NamesWritten ==
  {scraped_places[k].name : k \in 1..Len(scraped_places)}
    \cup {csv_file[k].name : k \in 1..Len(csv_file)}
    \cup {jsonl_file[k].name : k \in 1..Len(jsonl_file)}

\* C19: a candidate with an empty name is always rejected: is_duplicate
\* returns True for it in every state of the deduplicator, a page without a
\* name is rejected, and no record with an empty name is in the accepted
\* list or in the output streams.
C19_EmptyNameRejected ==
  /\ \A c \in DedupCoords : is_duplicate("", c[1], c[2], seen_places, scraped_places).dup
  /\ (probe # None /\ Candidate.name = "") => Candidate.rejected
  /\ "" \notin NamesWritten

C19_Witness ==
  /\ probe # None /\ Candidate.name = "" /\ HasCoordinates(Candidate)
  /\ Candidate.rejected
  /\ Len(scraped_places) = MaxNames /\ Len(csv_file) = MaxNames

\* The page the last check_for_captcha looked at, and its answer.
Inspected == Val(probe)

\* The content holds one of the blocking phrases, in whatever case.
HasBlockingPhrase(content) ==
  \E n \in DOMAIN content : content[n].text \in Range(blocking_keywords)

\* C20 as stated: check_for_captcha returns BLOCKED if and only if the
\* CAPTCHA marker is present or the content contains one of the four
\* phrases, case-insensitively.
C20_Original ==
  probe # None =>
    (Inspected.blocked <=> (Inspected.marker \/ HasBlockingPhrase(Inspected.content)))

\* C20: when both queries of the page succeed, check_for_captcha returns
\* BLOCKED if and only if the CAPTCHA marker is present or the lower-cased
\* content contains one of the four phrases; it never returns BLOCKED for a
\* page with neither, returns CLEAN when the marker query raises, and
\* changes no state of the scraper.
C20_DecisionRule ==
  /\ [](probe # None =>
         /\ Inspected.fails = "none" =>
              (Inspected.blocked <=>
                 (Inspected.marker \/ HasBlockingPhrase(Inspected.content)))
         /\ Inspected.blocked =>
              (Inspected.marker \/ HasBlockingPhrase(Inspected.content))
         /\ Inspected.fails = "query_selector" => ~Inspected.blocked)
  /\ [][UNCHANGED <<cfgVars, current_index, ctlVars, sessVars, dedupVars,
                     memVars, fileVars, progress>>]_vars

C20_Witness ==
  /\ probe # None /\ Inspected.fails = "none" /\ ~Inspected.marker
  /\ Inspected.blocked
  /\ Len(Inspected.content) = MaxContent
  /\ Inspected.content[MaxContent] = [text |-> "verify you", caps |-> TRUE]
  /\ Inspected.content[1].text = "google maps"

\* The value the k-th call of get_next_proxy has to return.
RoundRobin(k) ==
  IF proxies = <<>> THEN None ELSE Some(proxies[((k - 1) % Len(proxies)) + 1])

\* C21: on a loaded pool of n >= 1 identities the k-th call of
\* get_next_proxy returns pool[(k-1) mod n] and the cursor stays in 0..n-1;
\* on an empty pool every call returns None (and the cursor stays where it
\* is); no call modifies the pool.
C21_RoundRobin ==
  /\ [](/\ \A k \in 1..Len(proxy_log) : proxy_log[k] = RoundRobin(k)
        /\ proxies # <<>> => current_index \in 0..(Len(proxies) - 1)
        /\ proxies = <<>> => current_index = 0)
  /\ [][proxies' = proxies]_vars

C21_Witness ==
  /\ Len(proxies) = 2 /\ proxies[1] # proxies[2]
  /\ Len(proxy_log) = MaxCalls
  /\ proxy_log[3] = Some(proxies[1]) /\ proxy_log[4] = Some(proxies[2])
  /\ current_index = MaxCalls % 2

Last(s) == s[Len(s)]

\* The step is a page.goto(link) of the item loop.
FetchStep == fetch_log' # fetch_log /\ run' = run

\* The item loop of this session attempt has fetched nothing yet: it is at
\* its first link and (LinkScraper) at that link's first attempt.
FirstFetchOfSession == i = 1 /\ place_retry = 0

\* An item has been fetched and the loop has not left it yet.
Processing ==
  /\ target = "search"
  /\ pc \in {"parse", "save_csv", "save_jsonl", "save_track", "accept",
             "go_back", "item_except"}

\* C22: within a session attempt the items are fetched in the order of their
\* discovery, one at a time: a fetch never goes back to an item discovered
\* before the one fetched last in the attempt, what is extracted, saved or
\* logged as failed is always the item fetched last, and the loop index
\* moves forward one item at a time.
C22_DiscoveryOrder ==
  /\ [][FetchStep =>
          /\ fetch_log' = Append(fetch_log, CurItem)
          /\ ~FirstFetchOfSession
               => (fetch_log # <<>> /\ Last(fetch_log) <= CurItem)]_vars
  /\ [](Processing => (fetch_log # <<>> /\ Last(fetch_log) = CurItem))
  /\ [][(target = "search" /\ run' = run) =>
          /\ csv_file' # csv_file
               => Last(csv_file').google_maps_url = PageUrl(world, Last(fetch_log))
          /\ jsonl_file' # jsonl_file
               => Last(jsonl_file').google_maps_url = PageUrl(world, Last(fetch_log))
          /\ scraped_places' # scraped_places
               => Last(scraped_places').google_maps_url = PageUrl(world, Last(fetch_log))
          /\ failed_file' # failed_file
               => Last(failed_file')[1] = Link(Last(fetch_log))
          /\ (pc \in {"for", "while"} \cup {"go_back", "item_except"}
                /\ pc' \in {"for", "while"}) => i' \in {i, i + 1}]_vars

C22_Witness ==
  /\ scraper = "link" /\ pc = "parse" /\ retry_count = 1
  /\ fetch_log = <<1, 2, 1, 1, 2>>

\* The step is a parse_place_details whose check_for_captcha reports BLOCKED.
BlockedInExtraction ==
  /\ pc \in {"parse", "place"} /\ run' = run
  /\ \E k \in Items : "blocked_in_parse" \in outcome'[k] \ outcome[k]

\* C23: when check_for_captcha reports BLOCKED inside parse_place_details,
\* control goes to the outer loop's handler, as for a block detected right
\* after a navigation: the session is torn down and the next attempt starts
\* with the next proxy.
C23_BlockFromExtraction ==
  [][BlockedInExtraction => pc' = "handler"]_vars

\* C24: in every reachable state of scrape_with_retry, in search mode and in
\* single-place mode and across all session attempts, the number of
\* accepted records is at most max_results, for every max_results >= 0.
C24_CapNeverExceeded ==
  Len(scraped_places) <= max_results

\* Number of entries at the end of s that are all equal to x.
RECURSIVE TrailingRun(_, _)
TrailingRun(s, x) ==
  IF s = <<>> \/ Last(s) # x THEN 0
  ELSE 1 + TrailingRun(SubSeq(s, 1, Len(s) - 1), x)

\* LinkScraper is inside the while loop of an item whose fetches, as far as
\* they are at the end of fetch_log, all belong to this session attempt: the
\* item is not the first of the attempt, or the attempt is the first.
InsideItem ==
  /\ scraper = "link" /\ target = "search"
  /\ pc \in {"while", "parse", "save_csv", "save_jsonl", "save_track", "accept",
             "go_back", "item_except"}
  /\ (i > 1 \/ retry_count = 0)

NavigationFails == pc = "navigate" /\ faults' = faults + 1

\* The session attempt is being aborted because of its initial navigation.
AbortedAtNavigation ==
  /\ pc \in {"handler", "finally"} /\ ~returning
  /\ error_msg \in {MsgNavigation, MsgSearch}

\* C26: a BLOCKED classification or any failure at the initial navigation
\* or search step aborts the session attempt before any item is fetched
\* and adds exactly one to the outer retry counter; the counter changes
\* only in the outer handler, by one, each time followed by the teardown of
\* the session; and a run never makes more than max_retries attempts.
C26_SessionAbort ==
  /\ [][NavigationFails => (pc' = "handler" /\ fetch_log' = fetch_log)]_vars
  /\ [](AbortedAtNavigation => (result_links = <<>> /\ i = 0))
  /\ [][(pc \in {"handler", "finally"}) => fetch_log' = fetch_log]_vars
  /\ [][pc = "handler" => /\ retry_count' = retry_count + 1
                          /\ pc' = "finally" /\ returning' = FALSE]_vars
  /\ [][(pc = "finally" /\ ~returning /\ run' = run) => pc' = "loop"]_vars
  /\ [][(retry_count' # retry_count /\ run' = run)
          => (pc = "handler" /\ retry_count' = retry_count + 1)]_vars
  /\ [](Attempts <= max_retries /\ retry_count <= Attempts)

C26_Witness ==
  /\ scraper = "link" /\ pc = "finally" /\ ~returning
  /\ error_msg = MsgNavigation /\ nav_blocked = 1
  /\ retry_count = MaxRetriesArg /\ Attempts = MaxRetriesArg
  /\ Len(fetch_log) >= 1

\* The entries of the pool are pairwise distinct identities.
DistinctIdentities(pool) ==
  \A a, b \in DOMAIN pool : a # b => pool[a] # pool[b]

Identities(pool) == {pool[n] : n \in DOMAIN pool}

\* C27 as stated, in its last part: with a pool that holds at least two
\* distinct identities, the attempt that follows an aborted session uses
\* another identity than the aborted one.
C27_Original ==
  Cardinality(Identities(proxies)) >= 2
    => \A k \in 2..Attempts : proxy_log[k] # proxy_log[k - 1]

\* C27: every session attempt acquires exactly one proxy (one call of
\* get_next_proxy, at the start of the attempt and nowhere else), so
\* attempt k of a run uses pool[(k-1) mod n], None on an empty pool; with
\* a pool of two or more entries that are pairwise distinct, the attempt
\* that follows an aborted session uses another identity than the aborted
\* one.
C27_ProxyPerAttempt ==
  /\ [](\A k \in 1..Attempts : proxy_log[k] = RoundRobin(k))
  /\ [][(pc = "loop" /\ pc' \in {"navigate", "handler"})
          => Len(proxy_log') = Len(proxy_log) + 1]_vars
  /\ [][(proxy_log' # proxy_log /\ run' = run)
          => (pc = "loop" /\ Len(proxy_log') = Len(proxy_log) + 1)]_vars
  /\ []((Len(proxies) >= 2 /\ DistinctIdentities(proxies))
          => \A k \in 2..Attempts : proxy_log[k] # proxy_log[k - 1])

C27_Witness ==
  /\ pc = "navigate" /\ retry_count = 1 /\ nav_blocked = 1
  /\ proxies = <<1, 2>> /\ proxy_log = <<Some(1), Some(2)>>
  /\ current_index = 0

\* Names of the records in the accepted-record list.
AcceptedNames == {scraped_places[k].name : k \in 1..Len(scraped_places)}

\* save_place is at work on a record is_duplicate has let through.
Saving == pc \in {"save_csv", "save_jsonl", "save_track", "accept"}

\* C28: a call of is_duplicate that returns False registers the name, and
\* the candidate it let through ends up in the accepted-record list: a step
\* that registers a name returns the record of that name, between that step
\* and the append only this name is ahead of the list, and at every item
\* boundary (and between session attempts and at the end of the run) the
\* set of seen names equals the set of names of the accepted records.
C28_CheckAndInsert ==
  /\ [][(seen_places' # seen_places /\ run' = run) =>
          /\ place_data' # None
          /\ seen_places' = seen_places \cup {Val(place_data').name}
          /\ pc' = "save_csv"]_vars
  /\ [](Saving => seen_places \subseteq AcceptedNames \cup {Val(place_data).name})
  /\ [](AcceptedNames \subseteq seen_places)
  /\ []((pc \in {"for", "while", "handler", "loop", "done"})
          => seen_places = AcceptedNames)

C28_Witness ==
  /\ scraper = "link" /\ world = "twins" /\ pc = "for"
  /\ "dup" \in outcome[2]
  /\ seen_places = {Letters[1], Letters[3]} /\ Len(scraped_places) = 2

\* C29: across every step of a run, session aborts and new session attempts
\* included, the set of seen names only grows and the sequence of accepted
\* records only grows by records appended at its end; neither is cleared
\* or reordered.
C29_SeenSetMonotone ==
  [][run' = run =>
       /\ seen_places \subseteq seen_places'
       /\ Len(scraped_places') \in {Len(scraped_places), Len(scraped_places) + 1}
       /\ SubSeq(scraped_places', 1, Len(scraped_places)) = scraped_places]_vars

C29_Witness ==
  /\ scraper = "link" /\ pc = "go_back" /\ retry_count = 1
  /\ fetch_log = <<1, 2, 1, 1, 2>>
  /\ Len(scraped_places) = 2 /\ seen_places = {Letters[1], Letters[2]}
  /\ scraped_places[1].name = Letters[1]

\* C30: the durable set of processed identifiers only grows: every
\* identifier in the durable resume state before a save_place call, those
\* written by a prior run and loaded by load_resume_state included, is
\* still in the durable resume state after the call.  Stated for the
\* behaviours in which no operation of the environment fails, where it is
\* already violated.
C30_ResumeStateGrows ==
  [][(pc = "save_track" /\ run' = run /\ faults' = 0)
       => FreshLoad \subseteq load_resume_state(resume_file', TRUE)]_vars

\* C31: ProgressTracker is consistent and presentation-only: in every state
\* current = success + failed and total is the max_results it was built
\* with; in LinkScraper success is the number of accepted records, failed
\* goes up by one in exactly the steps that call save_failed_url (so the
\* failure log never holds more entries than failed counts), and the
\* tracker changes in no other step than an append of an accepted record
\* or a save_failed_url.
C31_ProgressConsistent ==
  /\ [](/\ progress.current = progress.success + progress.failed
        /\ progress.total = max_results
        /\ scraper = "link" => progress.success = Len(scraped_places)
        /\ Len(failed_file) <= progress.failed
        /\ faults = 0 => Len(failed_file) = progress.failed)
  /\ [][run' = run =>
          /\ (progress'.failed = progress.failed + 1) <=> SavesFailedUrl
          /\ progress'.failed \in {progress.failed, progress.failed + 1}
          /\ progress' # progress
               => (SavesFailedUrl \/ scraped_places' # scraped_places)]_vars

C31_Witness ==
  /\ scraper = "link" /\ pc = "done" /\ returning
  /\ progress = [total |-> 3, success |-> 2, failed |-> 1, current |-> 3]
  /\ Len(failed_file) = 0 /\ Len(scraped_places) = 2

\* PlaceScraper is about to parse the page of an item that is CLEAN, shows a
\* name and is no duplicate of anything accepted so far.
KeywordItemAcceptable ==
  /\ scraper = "keyword" /\ pc = "parse"
  /\ TruthyStr(PageName(world, CurItem))
  /\ ~is_duplicate(PageName(world, CurItem), PageLat(world, CurItem),
                   PageLon(world, CurItem), seen_places, scraped_places).dup

\* C32: in the keyword-search entry point, parse_place_details returns a
\* record for an item whose page is CLEAN, has a name and is no duplicate,
\* and the record is appended to scraped_places.
C32_KeywordRecordReturned ==
  [][KeywordItemAcceptable =>
       /\ place_data' # None
       /\ scraped_places' = Append(scraped_places, Val(place_data'))]_vars

\* save_place has recorded item k as a success in this run.
RecordedAsSuccess(k) == PageUrl(world, k) \in scraped_urls

\* C33: within one LinkScraper run no item is both recorded as a success by
\* save_place and written to the failure log, and every processed item has
\* caused exactly one ProgressTracker increment, also when the navigation
\* back to the result list fails after the record was saved.  Stated for
\* the first session attempt of a run, where it is already violated.
C33_SuccessFailureDisjoint ==
  (scraper = "link" /\ target = "search" /\ retry_count = 0) =>
    /\ \A k \in Items : ~(RecordedAsSuccess(k) /\ HasFailureEntry(Link(k)))
    /\ pc = "for" => progress.current = i - 1

\* C34: within one LinkScraper run an item that was accepted and recorded
\* during an earlier session attempt is not fetched again by a later
\* attempt, and not written to the failure log by it.  (An item recorded in
\* the current attempt has ended its loop; a failure logged while
\* place_data is empty belongs to an item this attempt has not saved.)
C34_AcceptedNotRefetched ==
  /\ [][(FetchStep /\ scraper = "link") => ~RecordedAsSuccess(CurItem)]_vars
  /\ [][(SavesFailedUrl /\ place_data = None) => ~RecordedAsSuccess(CurItem)]_vars

\* C35: in every reachable state no two accepted records have the same
\* name, and any two accepted records that both have coordinates are at
\* least the tolerance radius apart.
C35_AcceptedListInvariant ==
  \A a, b \in 1..Len(scraped_places) :
    a < b =>
      /\ scraped_places[a].name # scraped_places[b].name
      /\ (HasCoordinates(scraped_places[a]) /\ HasCoordinates(scraped_places[b]))
           => DistanceSq(scraped_places[a], scraped_places[b]) >= ToleranceSq

\* The arguments a call of is_duplicate can be given with a non-empty name.
NamedArguments == (DedupNames \ {""}) \X DedupCoords

\* What is_duplicate answers to the arguments x in the state given.
Rejects(x, seen, places) == is_duplicate(x[1], x[2][1], x[2][2], seen, places).dup

\* The step is a call of is_duplicate with the arguments x.
CalledWith(x) ==
  /\ probe' # probe /\ probe' # None
  /\ Val(probe').name = x[1]
  /\ Val(probe').latitude = x[2][1] /\ Val(probe').longitude = x[2][2]

\* C36: after any call of is_duplicate with a non-empty name, whatever it
\* returned, every later call with the same three arguments returns True:
\* once a call has been made the answer to its arguments is True, an
\* answer True to given arguments stays True in every later state, and a
\* call answers what the state says.
C36_RejectionStable ==
  /\ [][\A x \in NamedArguments :
          CalledWith(x) => Rejects(x, seen_places', scraped_places')]_vars
  /\ [][\A x \in NamedArguments :
          Rejects(x, seen_places, scraped_places)
            => Rejects(x, seen_places', scraped_places')]_vars
  /\ [][\A x \in NamedArguments :
          CalledWith(x)
            => (Val(probe').rejected <=> Rejects(x, seen_places, scraped_places))]_vars

C36_Witness ==
  /\ probe # None /\ Candidate.rejected
  /\ Candidate.name # "" /\ Candidate.name \notin seen_places
  /\ HasCoordinates(Candidate) /\ Len(scraped_places) = 1
  /\ DistanceSq(scraped_places[1], Candidate) < ToleranceSq

\* C37: a call of is_duplicate that returns True leaves the set of seen
\* names and the accepted-record list as they were, whichever of the three
\* tests (empty name, seen name, scan of the accepted records) rejected the
\* candidate.
C37_RejectionLeavesSeenSet ==
  /\ [][(probe' # None /\ Val(probe').rejected)
          => (seen_places' = seen_places /\ scraped_places' = scraped_places)]_vars
  /\ [][\A name \in DedupNames, c \in DedupCoords :
          is_duplicate(name, c[1], c[2], seen_places, scraped_places).dup
            => is_duplicate(name, c[1], c[2], seen_places, scraped_places).seen
                 = seen_places]_vars

C37_Witness ==
  /\ probe # None /\ Candidate.rejected /\ HasCoordinates(Candidate)
  /\ Len(scraped_places) = 1 /\ seen_places = {scraped_places[1].name}
  /\ Candidate.name \notin {"", scraped_places[1].name}
  /\ DistanceSq(scraped_places[1], Candidate) > 0
  /\ DistanceSq(scraped_places[1], Candidate) < ToleranceSq

\* The target is a search whose result page lists no item.
EmptySearch == target = "search" /\ found = 0

\* C38: a search that discovers zero items is a failure of the session
\* attempt: collecting the results raises "No results found", the outer
\* handler counts the attempt, and the run ends only when all max_retries
\* attempts are used, with no record accepted or written and nothing in the
\* failure log.
C38_EmptySearchExhaustsAttempts ==
  /\ [][(EmptySearch /\ pc = "collect")
          => (pc' = "handler" /\ error_msg' = MsgNoResults)]_vars
  /\ [][(EmptySearch /\ pc = "handler")
          => (retry_count' = retry_count + 1 /\ ~returning')]_vars
  /\ [](EmptySearch => (~returning /\ scraped_places = <<>> /\ csv_file = <<>>
                          /\ jsonl_file = <<>> /\ failed_file = <<>>
                          /\ progress.success = 0 /\ progress.failed = 0))
  /\ []((EmptySearch /\ pc = "done")
          => (retry_count = max_retries /\ Attempts = max_retries))

C38_Witness ==
  /\ EmptySearch /\ pc = "done" /\ faults = 0
  /\ retry_count = MaxRetriesArg /\ Attempts = MaxRetriesArg
  /\ error_msg = "" /\ scraped_places = <<>> /\ failed_file = <<>>

\* The inspection raised inside check_for_captcha: the marker query raised,
\* or it found no marker and the content read that follows raised (with a
\* marker found the function has returned before it reads the content).
InspectionRaised ==
  \/ Inspected.fails = "query_selector"
  \/ Inspected.fails = "content" /\ ~Inspected.marker

\* C39: when the marker query or the content read raises inside
\* check_for_captcha, the call still returns, and what it returns is CLEAN,
\* also for a page that shows the marker or whose content holds a blocking
\* phrase.
C39_InspectionFailureIsClean ==
  (probe # None /\ InspectionRaised) =>
    (Inspected.blocked \in BOOLEAN /\ Inspected.blocked = FALSE)

C39_Witness ==
  /\ probe # None /\ Inspected.fails = "content" /\ ~Inspected.marker
  /\ HasBlockingPhrase(Inspected.content)
  /\ ~Inspected.blocked

====
